---- MODULE Spec2Model ----
(***************************************************************************)
(* Model of compiler/internal/cuegen/service.go: the per-service CUE       *)
(* generator.  A service counts the usages of every named type reachable   *)
(* from its config.Load declarations, registers the fields of every        *)
(* declaration as merged top level fields, and finally assembles the file. *)
(***************************************************************************)
EXTENDS Integers, Sequences, FiniteSets, TLC

\* Longest list of config.Load declarations of the modelled service.
MaxRoots == 3

(***************************************************************************)
(* Schema types (schema.Type): a tagged union.                             *)
(***************************************************************************)
Builtin(b) == [k |-> "builtin", b |-> b]

Named(id) == [k |-> "named", id |-> id]

Struct(fields) == [k |-> "struct", fields |-> fields]

Map(key, value) == [k |-> "map", key |-> key, value |-> value]

List(elem) == [k |-> "list", elem |-> elem]

Config(elem) == [k |-> "config", elem |-> elem]

\* schema.Field: name, type, documentation (its lines) and structured tags.
SField(name, typ, doc, tags) == [name |-> name, typ |-> typ, doc |-> doc, tags |-> tags]

Tag(key, name, options) == [key |-> key, name |-> name, options |-> options]

(***************************************************************************)
(* The declaration registry (s.g.res.Meta.Decls) of the modelled program.  *)
(***************************************************************************)
LeafDecl ==
    [doc |-> <<>>,
     body |-> Struct(<<SField("Val", Builtin("UINT"), <<>>, <<>>)>>)]

RetryDecl ==
    [doc |-> <<"retry">>,
     body |-> Struct(<<SField("Count", Builtin("INT"), <<>>, <<>>),
                       SField("Leaf", Named("Leaf"), <<>>, <<>>)>>)]

BadDecl ==
    [doc |-> <<>>,
     body |-> Struct(<<SField("F", Builtin("STRING"), <<>>, <<Tag("cue", "((", {})>>)>>)]

CfgDecl ==
    [doc |-> <<>>,
     body |-> Struct(<<SField("Port", Builtin("INT"), <<>>, <<>>),
                       SField("Name", Builtin("STRING"), <<"a">>, <<>>),
                       SField("Retry", Named("Retry"), <<>>, <<>>)>>)]

AltDecl ==
    [doc |-> <<>>,
     body |-> Struct(<<SField("Name", Builtin("STRING"), <<"b">>, <<Tag("cue", "X", {"opt"})>>),
                       SField("P", Config(Builtin("INT")), <<>>, <<Tag("json", "Port", {"omitempty"})>>),
                       SField("Retry", Config(Named("Retry")), <<>>, <<>>)>>)]

DocDecl ==
    [doc |-> <<>>,
     body |-> Struct(<<SField("Name", Builtin("STRING"), <<"a", "b">>, <<Tag("cue", "Y", {})>>),
                       SField("Tags", Map(Builtin("STRING"), List(Config(Named("Leaf")))), <<>>, <<>>),
                       SField("When", Config(Config(Builtin("TIME"))), <<>>, <<Tag("json", "", {"omitempty"})>>)>>)]

EmptyDecl == [doc |-> <<>>, body |-> Struct(<<>>)]

BadUseDecl ==
    [doc |-> <<>>,
     body |-> Struct(<<SField("B", Named("Bad"), <<>>, <<>>)>>)]

LstDecl == [doc |-> <<>>, body |-> List(Builtin("INT"))]

MissDecl ==
    [doc |-> <<>>,
     body |-> Struct(<<SField("M", Named("Missing"), <<>>, <<>>)>>)]

\* Declaration order of the registry; "Missing" is referenced but not declared.
DeclOrder == <<"Leaf", "Retry", "Bad", "Cfg", "Alt", "Doc", "Empty", "BadUse", "Lst", "Miss">>

DeclIds == {DeclOrder[i] : i \in 1..Len(DeclOrder)}

AllIds == DeclIds \cup {"Missing"}

Decls ==
    [id \in DeclIds |->
        CASE id = "Leaf" -> LeafDecl
          [] id = "Retry" -> RetryDecl
          [] id = "Bad" -> BadDecl
          [] id = "Cfg" -> CfgDecl
          [] id = "Alt" -> AltDecl
          [] id = "Doc" -> DocDecl
          [] id = "Empty" -> EmptyDecl
          [] id = "BadUse" -> BadUseDecl
          [] id = "Lst" -> LstDecl
          [] OTHER -> MissDecl]

\* The types a service may pass to config.Load.
RootTypes ==
    {Named("Cfg"), Named("Alt"), Named("Doc"), Named("Empty"),
     Named("BadUse"), Named("Lst"), Named("Miss")}

\* Text of cue tags the CUE expression parser accepts.
ValidCueExprs == {"X", "Y"}

(***************************************************************************)
(* Results of operations that may fail: err = "" means success.            *)
(***************************************************************************)
Nil == [k |-> "nil"]

Ok(v) == [err |-> "", val |-> v]

Err(e) == [err |-> e, val |-> Nil]

(***************************************************************************)
(* CUE syntax tree nodes (cuelang.org/go/cue/ast).                         *)
(***************************************************************************)
NewIdent(name) == [k |-> "ident", name |-> name]

NewSel(x, sel) == [k |-> "sel", x |-> x, sel |-> sel]

NewList(elts) == [k |-> "list", elts |-> elts]

Ellipsis(type) == [k |-> "ellipsis", type |-> type]

NewStruct(elts) == [k |-> "struct", elts |-> elts]

NewBinExprAnd(x, y) == [k |-> "and", x |-> x, y |-> y]

\* ast.Field: Label, Value, Optional and the attached comment groups.
NewField(label, value) == [label |-> label, value |-> value, optional |-> FALSE, comments |-> <<>>]

\* parser.ParseExpr on the text of a cue tag.
ParseExpr(src) == IF src \in ValidCueExprs THEN Ok([k |-> "parsed", src |-> src]) ELSE Err("parse")

\* addCommentToField: the documentation becomes one comment group, a comment
\* per line, at the position of a freshly attached comment.
addCommentToField(field, doc) == [field EXCEPT !.comments = Append(@, [list |-> doc, moved |-> FALSE])]

\* encoding.GetConcreteType on a named type: its declaration's body.
GetConcreteType(typ) ==
    IF typ.k # "named" THEN Ok(typ)
    ELSE IF typ.id \in DeclIds THEN Ok(Decls[typ.id].body) ELSE Err("resolve")

RECURSIVE GetConcreteStructType(_)
\* encoding.GetConcreteStructType: resolves down to a struct or fails.
GetConcreteStructType(typ) ==
    CASE typ.k = "struct" -> Ok(typ)
      [] typ.k = "config" -> GetConcreteStructType(typ.elem)
      [] typ.k = "named" ->
            IF typ.id \in DeclIds THEN GetConcreteStructType(Decls[typ.id].body)
            ELSE Err("resolve")
      [] OTHER -> Err("notstruct")

\* definitionGenerator.CueIdent: the identifier of a hoisted definition.
CueIdent(id) == NewIdent("#" \o id)

\* definitionGenerator.Count.
Count(u, id) == u[id]

(***************************************************************************)
(* The type translator.                                                    *)
(***************************************************************************)
\* builtinToCue: the fixed mapping of builtin kinds.
builtinToCue(b) ==
    CASE b = "ANY" -> NewIdent("_")
      [] b = "BOOL" -> NewIdent("bool")
      [] b = "INT8" -> NewIdent("int8")
      [] b = "INT16" -> NewIdent("int16")
      [] b = "INT32" -> NewIdent("int32")
      [] b = "INT64" -> NewIdent("int64")
      [] b = "UINT8" -> NewIdent("uint8")
      [] b = "UINT16" -> NewIdent("uint16")
      [] b = "UINT32" -> NewIdent("uint32")
      [] b = "UINT64" -> NewIdent("uint64")
      [] b = "FLOAT32" -> NewIdent("float32")
      [] b = "FLOAT64" -> NewIdent("float64")
      [] b = "STRING" -> NewIdent("string")
      [] b = "BYTES" -> NewIdent("bytes")
      [] b = "TIME" -> NewSel(NewIdent("time"), "Time")
      [] b = "UUID" -> NewIdent("string")
      [] b = "JSON" -> NewIdent("string")
      [] b = "USER_ID" -> NewIdent("string")
      [] b = "INT" -> NewIdent("int")
      [] b = "UINT" -> NewIdent("uint")

\* A plausible slip of the inlining test: a type used twice is still inlined.
inlineNamedOff(usageCount) == usageCount <= 2

\* toCueType, case Named: "inline the type if it's only used once".
inlineNamed(usageCount) == usageCount <= 1

\* A plausible slip of the wrapper case: the wrapper leaves a node of its own.
configElemWrapped(typ) == List(typ.elem)

\* toCueType, case Config: the type the wrapper is unwrapped to.
configElem(typ) == typ.elem

\* structToFields: the effect of one json tag on the field under construction.
applyJsonTag(st, tag) ==
    [st EXCEPT !.field.label = IF tag.name # "" THEN NewIdent(tag.name) ELSE @,
               !.isOptional = @ \/ ("omitempty" \in tag.options)]

\* structToFields: the effect of one cue tag on the field under construction.
applyCueTag(st, tag) ==
    LET parsed == ParseExpr(tag.name)
    IN  IF tag.name # "" /\ parsed.err # "" THEN [st EXCEPT !.err = parsed.err]
        ELSE [st EXCEPT !.field.value = IF tag.name # "" THEN NewBinExprAnd(@, parsed.val) ELSE @,
                        !.isOptional = @ \/ ("opt" \in tag.options)]

RECURSIVE applyTags(_, _, _)
\* structToFields: the loop over f.Tags, from tag i on.
applyTags(st, tags, i) ==
    IF i > Len(tags) \/ st.err # "" THEN st
    ELSE LET tag == tags[i]
             st1 == IF tag.key = "json" THEN applyJsonTag(st, tag) ELSE st
             st2 == IF tag.key = "cue" THEN applyCueTag(st1, tag) ELSE st1
         IN  applyTags(st2, tags, i + 1)

\* structToFields: "Mark the field as optional if it is" and "Add the
\* documentation to the field", on the field the tags left.
finishField(f, st) ==
    IF st.err # "" THEN Err(st.err)
    ELSE Ok([st.field EXCEPT !.optional = IF st.isOptional THEN TRUE ELSE @,
                             !.comments = IF f.doc # <<>> THEN addCommentToField(st.field, f.doc).comments ELSE @])

\* structToFields: one schema field, whose type translated to fieldType.
fieldOf(f, fieldType) ==
    finishField(f, applyTags([field |-> NewField(NewIdent(f.name), fieldType), isOptional |-> FALSE, err |-> ""],
                             f.tags, 1))

\* structToFields: the field of f once its type is translated, or the error.
typedField(f, fieldType) ==
    IF fieldType.err # "" THEN Err(fieldType.err) ELSE fieldOf(f, fieldType.val)

RECURSIVE toCueType(_, _)
RECURSIVE structFieldsFrom(_, _, _, _)
RECURSIVE appendField(_, _, _, _, _)
\* structToFields: "fields = append(fields, field)" and the rest of the loop,
\* or the error of the field.
appendField(stru, u, i, acc, field) ==
    IF field.err # "" THEN Err(field.err)
    ELSE structFieldsFrom(stru, u, i + 1, Append(acc, field.val))

\* structToFields: the loop over stru.Fields, from field i on, fields so far in acc.
structFieldsFrom(stru, u, i, acc) ==
    IF i > Len(stru.fields) THEN Ok(acc)
    ELSE appendField(stru, u, i, acc, typedField(stru.fields[i], toCueType(stru.fields[i].typ, u)))

\* structToFields: a struct as a list of fields, under the usage table u.
structToFields(stru, u) == structFieldsFrom(stru, u, 1, <<>>)

RECURSIVE translateConcrete(_, _)
\* toCueType on the concrete type of a named type, or the error of resolving it.
translateConcrete(concrete, u) ==
    IF concrete.err # "" THEN Err(concrete.err) ELSE toCueType(concrete.val, u)

\* toCueType, case Struct: the struct literal of the fields, or their error.
structOf(fields) == IF fields.err # "" THEN Err(fields.err) ELSE Ok(NewStruct(fields.val))

\* toCueType, case Map: the key pattern and the value pattern, or the first error.
mapOf(keyType, valueType) ==
    IF keyType.err # "" THEN Err(keyType.err)
    ELSE IF valueType.err # "" THEN Err(valueType.err)
    ELSE Ok(NewStruct(<<NewField(NewList(<<keyType.val>>), valueType.val)>>))

\* toCueType, case List: the open list of the element type, or its error.
listOf(listType) ==
    IF listType.err # "" THEN Err(listType.err) ELSE Ok(NewList(<<Ellipsis(listType.val)>>))

\* toCueType: a schema type as a CUE expression, under the usage table u.
toCueType(unknownType, u) ==
    CASE unknownType.k = "named" ->
            IF inlineNamed(Count(u, unknownType.id))
            THEN translateConcrete(GetConcreteType(unknownType), u)
            ELSE Ok(CueIdent(unknownType.id))
      [] unknownType.k = "struct" -> structOf(structToFields(unknownType, u))
      [] unknownType.k = "map" -> mapOf(toCueType(unknownType.key, u), toCueType(unknownType.value, u))
      [] unknownType.k = "list" -> listOf(toCueType(unknownType.elem, u))
      [] unknownType.k = "builtin" -> Ok(builtinToCue(unknownType.b))
      [] unknownType.k = "config" -> toCueType(configElem(unknownType), u)

(***************************************************************************)
(* The usage counter.                                                      *)
(***************************************************************************)
\* definitionGenerator.Inc on the usage table u.
Inc(u, id) == [u EXCEPT ![id] = @ + 1]

\* countNamedUsagesAndCollectImports: the visitor applied to one node.
visit(acc, node) ==
    CASE node.k = "named" -> [acc EXCEPT !.typeUsage = Inc(@, node.id)]
      [] node.k = "builtin" /\ node.b = "TIME" ->
            [acc EXCEPT !.neededImports =
                [p \in DOMAIN @ \cup {"time"} |-> IF p = "time" THEN "time" ELSE @[p]]]
      [] OTHER -> acc

RECURSIVE Walk(_, _)
RECURSIVE WalkFields(_, _, _)
RECURSIVE walkInto(_, _)
\* schema.Walk over the fields of a struct, from field i on.
WalkFields(fields, i, acc) ==
    IF i > Len(fields) \/ acc.err # "" THEN acc
    ELSE WalkFields(fields, i + 1, Walk(fields[i].typ, acc))

\* schema.Walk below a node the visitor has seen: a named type is followed
\* into its declaration every time it is met.
walkInto(typ, seen) ==
    CASE typ.k = "named" ->
            IF typ.id \in DeclIds THEN Walk(Decls[typ.id].body, seen)
            ELSE [seen EXCEPT !.err = "resolve"]
      [] typ.k = "struct" -> WalkFields(typ.fields, 1, seen)
      [] typ.k = "map" -> Walk(typ.value, Walk(typ.key, seen))
      [] typ.k = "list" -> Walk(typ.elem, seen)
      [] typ.k = "config" -> Walk(typ.elem, seen)
      [] OTHER -> seen

\* schema.Walk: depth first, the visitor once per node met, repeats included.
Walk(typ, acc) == IF acc.err # "" THEN acc ELSE walkInto(typ, visit(acc, typ))

\* countNamedUsagesAndCollectImports on one declared type.
countNamedUsagesAndCollectImports(typ, u, imports) ==
    Walk(typ, [err |-> "", typeUsage |-> u, neededImports |-> imports])

\* definitionGenerator.NamesWithCountsOver: the named types in declaration order.
NamesWithCountsOver(u, n) ==
    LET over(id) == u[id] > n
    IN  SelectSeq(Append(DeclOrder, "Missing"), over)

(***************************************************************************)
(* The field merger.                                                       *)
(***************************************************************************)
\* The lines of every comment group attached to a field.
CommentLines(field) == UNION {{field.comments[g].list[i] : i \in 1..Len(field.comments[g].list)} : g \in 1..Len(field.comments)}

\* commentAlreadyPresent: every line of the group is, by its text, among the
\* lines the field already carries.
commentAlreadyPresent(field, comment) ==
    \A i \in 1..Len(comment.list) : comment.list[i] \in CommentLines(field)

RECURSIVE appendComments(_, _, _)
\* registerTopLevelField: the loop appending the new field's comment groups to
\* the first comment group of the existing field, from group i on.
appendComments(existing, comments, i) ==
    IF i > Len(comments) THEN existing
    ELSE appendComments(
            IF commentAlreadyPresent(existing, comments[i]) THEN existing
            ELSE [existing EXCEPT !.comments[1].list = @ \o comments[i].list],
            comments, i + 1)

\* registerTopLevelField: the test guarding the move of the comment group.
moveCommentGroup(grp) == Len(grp.list) > 0

\* registerTopLevelField: "move the comment groups position to be before the
\* field label" (Position = 0, the first comment's Slash a new section).
moveComments(existing) ==
    IF moveCommentGroup(existing.comments[1])
    THEN [existing EXCEPT !.comments[1].moved = TRUE]
    ELSE existing

\* registerTopLevelField: the comments of the new field merged into the existing one.
mergeComments(existing, field) ==
    IF Len(field.comments) > 0
    THEN IF Len(existing.comments) = 0
         THEN [existing EXCEPT !.comments = field.comments]
         ELSE moveComments(appendComments(existing, field.comments, 1))
    ELSE existing

\* A plausible slip: the values are conjoined without the equality test.
mergeValueAlways(existing, field) == [existing EXCEPT !.value = NewBinExprAnd(@, field.value)]

\* A plausible slip: the later declaration's value is dropped.
mergeValueNever(existing, field) == existing

\* registerTopLevelField: "Merge the values if they are different".
mergeValue(existing, field) ==
    IF existing.value # field.value
    THEN [existing EXCEPT !.value = NewBinExprAnd(@, field.value)]
    ELSE existing

\* ast.LabelName of a field label.
LabelName(label) == IF label.k = "ident" THEN Ok(label.name) ELSE Err("label")

\* A plausible slip: the new field is listed but not entered in the lookup table.
addFieldUnindexed(tbl, name, field) ==
    [tbl EXCEPT !.heap = Append(@, field),
                !.topLevelFields = Append(@, Len(tbl.heap) + 1)]

\* registerTopLevelField: "otherwise add this field", at a fresh reference.
addField(tbl, name, field) ==
    [heap |-> Append(tbl.heap, field),
     fieldLookup |-> [l \in DOMAIN tbl.fieldLookup \cup {name} |->
                         IF l = name THEN Len(tbl.heap) + 1 ELSE tbl.fieldLookup[l]],
     topLevelFields |-> Append(tbl.topLevelFields, Len(tbl.heap) + 1)]

\* registerTopLevelField: "If we already know about the field, merge the
\* definitions", in the ast.Field the table refers to.
mergeField(tbl, name, field) ==
    [tbl EXCEPT !.heap[tbl.fieldLookup[name]] = mergeValue(mergeComments(@, field), field)]

\* registerTopLevelField: the body of the loop, for one field named name.  The
\* table holds the fields by reference: heap is the store of the ast.Field objects.
registerField(tbl, name, field) ==
    IF name \in DOMAIN tbl.fieldLookup THEN mergeField(tbl, name, field)
    ELSE addField(tbl, name, field)

RECURSIVE registerFields(_, _, _)
\* registerTopLevelField: the loop over the fields, from field i on.
registerFields(tbl, fields, i) ==
    IF i > Len(fields) THEN [err |-> "", tbl |-> tbl]
    ELSE IF LabelName(fields[i].label).err # "" THEN [err |-> "label", tbl |-> tbl]
    ELSE registerFields(registerField(tbl, LabelName(fields[i].label).val, fields[i]), fields, i + 1)

\* registerTopLevelField once the fields of the declared type are known.
registerAll(fields, tbl) ==
    IF fields.err # "" THEN [err |-> fields.err, tbl |-> tbl]
    ELSE registerFields(tbl, fields.val, 1)

\* registerTopLevelField: the fields of the concrete struct, or the error of
\* resolving it.
fieldsOfConcrete(concrete, u) ==
    IF concrete.err # "" THEN Err(concrete.err) ELSE structToFields(concrete.val, u)

\* registerTopLevelField on one declared type, under the usage table u.
registerTopLevelField(typ, u, tbl) ==
    registerAll(fieldsOfConcrete(GetConcreteStructType(typ), u), tbl)

(***************************************************************************)
(* The document assembler.                                                 *)
(***************************************************************************)
\* The name of the service (s.svc.Name).
SvcName == "svc"

\* generateCue: the fixed header comment of a generated file (the text of the
\* source, less its backquotes).
HeaderComment ==
    <<"// Code generated by encore. DO NOT EDIT.",
      "//",
      "// The contents of this file are generated from the structs used in",
      "// conjunction with Encore's config.Load[T]() function. This file",
      "// automatically be regenerated if the data types within the struct",
      "// are changed.",
      "//",
      "// For more information about this file, see:",
      "// https://encore.dev/docs/develop/config">>

\* generateCue: the import paths in sorted order ("time" is the only path
\* countNamedUsagesAndCollectImports ever records).
sortedImports(imports) ==
    LET needed(p) == p \in DOMAIN imports
    IN  SelectSeq(<<"time">>, needed)

\* generateCue: the import spec of one path, aliased only under another name.
importSpec(imports, importPath) ==
    [ident |-> IF imports[importPath] # importPath THEN NewIdent(imports[importPath]) ELSE Nil,
     path |-> importPath]

\* generateCue: the package clause, the header comment and the imports.
writeHeader(file, imports) ==
    LET withPkg == [file EXCEPT !.decls = Append(@, [k |-> "package", name |-> NewIdent(SvcName)]),
                                !.comments = Append(@, HeaderComment)]
        paths == sortedImports(imports)
        specs == [i \in 1..Len(paths) |-> importSpec(imports, paths[i])]
    IN  IF Cardinality(DOMAIN imports) > 0
        THEN [withPkg EXCEPT !.imports = @ \o specs,
                             !.decls = Append(@, [k |-> "importDecl", specs |-> withPkg.imports \o specs])]
        ELSE withPkg

\* generateCue: the definition of one type used several times.
definitionOf(id, fieldType) ==
    LET field == NewField(CueIdent(id), fieldType)
        doc == Decls[id].doc
    IN  [k |-> "field",
         field |-> IF doc # <<>> THEN addCommentToField(field, doc) ELSE field,
         newSection |-> doc = <<>>]

RECURSIVE writeDefinitions(_, _, _, _)
\* generateCue: one turn of the loop, the type of the definition translated.
writeDefinition(file, names, i, u, fieldType) ==
    IF fieldType.err # "" THEN [err |-> fieldType.err, file |-> file]
    ELSE writeDefinitions([file EXCEPT !.decls = Append(@, definitionOf(names[i], fieldType.val))],
                          names, i + 1, u)

\* generateCue: the loop over the types used several times, from name i on.
writeDefinitions(file, names, i, u) ==
    IF i > Len(names) THEN [err |-> "", file |-> file]
    ELSE writeDefinition(file, names, i, u, translateConcrete(GetConcreteType(Named(names[i])), u))

\* generateCue: the top level fields, by reference, in the order of the list.
topLevelDecls(fields) == [i \in 1..Len(fields) |-> [k |-> "ref", ptr |-> fields[i]]]

\* A plausible slip: the test for an empty list of top level fields is missing.
nothingToDoNever(fields) == FALSE

\* generateCue: "If there are no top level fields, we've got nothing to do here".
nothingToDo(fields) == Len(fields) = 0

\* generateCue: the usage count over which a type gets a definition of its own.
hoistOver == 1

\* generateCue: "Now write the top level fields required in the config".
appendTopLevel(decls, fields) == decls \o topLevelDecls(fields)

\* generateCue: the end, after the loop over the definitions.
writeTopLevel(defs, fields) ==
    IF defs.err # "" THEN defs
    ELSE [err |-> "", file |-> [defs.file EXCEPT !.decls = appendTopLevel(@, fields)]]

\* generateCue on the state of the service.
generateCue(f, fields, u, imports) ==
    IF nothingToDo(fields) THEN [err |-> "", file |-> f]
    ELSE writeTopLevel(writeDefinitions(writeHeader(f, imports), NamesWithCountsOver(u, hoistOver), 1, u), fields)

(***************************************************************************)
(* The service as a state machine: the generator counts every declaration, *)
(* then registers every declaration, then generates the file; the first    *)
(* error ends the run.                                                     *)
(***************************************************************************)
VARIABLES roots, pc, idx, err, typeUsage, neededImports, heap, fieldLookup, topLevelFields, file

vars == <<roots, pc, idx, err, typeUsage, neededImports, heap, fieldLookup, topLevelFields, file>>

\* The empty map.
EmptyMap == [x \in {} |-> Nil]

Init ==
    /\ roots \in UNION {[1..n -> RootTypes] : n \in 0..MaxRoots}
    /\ pc = IF roots = <<>> THEN "generate" ELSE "count"
    /\ idx = 1
    /\ err = ""
    /\ typeUsage = [id \in AllIds |-> 0]
    /\ neededImports = EmptyMap
    /\ heap = <<>>
    /\ fieldLookup = EmptyMap
    /\ topLevelFields = <<>>
    /\ file = [decls |-> <<>>, imports |-> <<>>, comments |-> <<>>]

\* The field table of the current state.
Table == [heap |-> heap, fieldLookup |-> fieldLookup, topLevelFields |-> topLevelFields]

\* One call of countNamedUsagesAndCollectImports, on declaration idx.
CountUsages ==
    /\ pc = "count"
    /\ \E r \in {countNamedUsagesAndCollectImports(roots[idx], typeUsage, neededImports)} :
           /\ typeUsage' = r.typeUsage
           /\ neededImports' = r.neededImports
           /\ err' = r.err
           /\ pc' = IF r.err # "" THEN "failed" ELSE IF idx = Len(roots) THEN "register" ELSE "count"
           /\ idx' = IF r.err = "" /\ idx < Len(roots) THEN idx + 1 ELSE 1
    /\ UNCHANGED <<roots, heap, fieldLookup, topLevelFields, file>>

\* One call of registerTopLevelField, on declaration idx.
RegisterTopLevelField ==
    /\ pc = "register"
    /\ \E r \in {registerTopLevelField(roots[idx], typeUsage, Table)} :
           /\ heap' = r.tbl.heap
           /\ fieldLookup' = r.tbl.fieldLookup
           /\ topLevelFields' = r.tbl.topLevelFields
           /\ err' = r.err
           /\ pc' = IF r.err # "" THEN "failed" ELSE IF idx = Len(roots) THEN "generate" ELSE "register"
           /\ idx' = IF r.err = "" /\ idx < Len(roots) THEN idx + 1 ELSE idx
    /\ UNCHANGED <<roots, typeUsage, neededImports, file>>

\* The call of generateCue.
GenerateCue ==
    /\ pc = "generate"
    /\ \E r \in {generateCue(file, topLevelFields, typeUsage, neededImports)} :
           /\ file' = r.file
           /\ err' = r.err
           /\ pc' = IF r.err # "" THEN "failed" ELSE "done"
    /\ UNCHANGED <<roots, idx, typeUsage, neededImports, heap, fieldLookup, topLevelFields>>

Next == CountUsages \/ RegisterTopLevelField \/ GenerateCue

Spec == Init /\ [][Next]_vars

(***************************************************************************)
(* Vocabulary of the properties.                                           *)
(***************************************************************************)
\* The states in which no operation has failed.
Running == pc \in {"count", "register", "generate", "done"}

\* The number of declarations registerTopLevelField has registered.
RegisteredCount ==
    CASE pc = "register" -> idx - 1
      [] pc \in {"generate", "done"} -> Len(roots)
      [] OTHER -> 0

\* The schema fields of declaration j and the fields structToFields makes of them.
SchemaFields(j) == GetConcreteStructType(roots[j]).val.fields

DeclaredFields(j) == structToFields(GetConcreteStructType(roots[j]).val, typeUsage).val

\* The (declaration, field) positions registered so far that declare label l.
DeclaredAt(l) ==
    {p \in UNION {{<<j, i>> : i \in 1..Len(SchemaFields(j))} : j \in 1..RegisteredCount} :
        DeclaredFields(p[1])[p[2]].label.name = l}

\* The top level field of label l.
TopLevel(l) == heap[fieldLookup[l]]

\* All the comment lines of a field, in order.
Lines(field) == IF field.comments = <<>> THEN <<>> ELSE field.comments[1].list

SeqToSet(q) == {q[i] : i \in 1..Len(q)}

\* A schema field whose tags ask for an optional field.
HasOptionalTag(sf) ==
    \E t \in 1..Len(sf.tags) :
        \/ sf.tags[t].key = "json" /\ "omitempty" \in sf.tags[t].options
        \/ sf.tags[t].key = "cue" /\ "opt" \in sf.tags[t].options

RECURSIVE OccursIn(_, _)
\* The expression target occurs in the expression e.
OccursIn(target, e) ==
    \/ e = target
    \/ CASE e.k = "and" -> OccursIn(target, e.x) \/ OccursIn(target, e.y)
         [] e.k = "sel" -> OccursIn(target, e.x)
         [] e.k = "ellipsis" -> OccursIn(target, e.type)
         [] e.k = "list" -> \E i \in 1..Len(e.elts) : OccursIn(target, e.elts[i])
         [] e.k = "struct" ->
               \E i \in 1..Len(e.elts) :
                   OccursIn(target, e.elts[i].label) \/ OccursIn(target, e.elts[i].value)
         [] OTHER -> FALSE

RECURSIVE Conjuncts(_, _)
\* The conjuncts of v, read as a conjunction of members of the set D.
Conjuncts(v, D) ==
    IF v \in D THEN {v}
    ELSE IF v.k = "and" /\ v.y \in D THEN {v.y} \cup Conjuncts(v.x, D)
    ELSE {Nil}

\* The file before generateCue.
EmptyFile == [decls |-> <<>>, imports |-> <<>>, comments |-> <<>>]

\* The value of entry i of the file's declarations (Nil for the package clause
\* and the imports).
DeclValue(i) ==
    CASE file.decls[i].k = "field" -> file.decls[i].field.value
      [] file.decls[i].k = "ref" -> heap[file.decls[i].ptr].value
      [] OTHER -> Nil

\* The entries of the file that define the named type id on its own.
DefinitionsOf(id) ==
    {i \in 1..Len(file.decls) : file.decls[i].k = "field" /\ file.decls[i].field.label = CueIdent(id)}

\* The named types used as the type of a config.Load declaration.
RootIds == {roots[j].id : j \in 1..Len(roots)}

\* The named types declared as structs.
StructIds == {id \in DeclIds : Decls[id].body.k = "struct"}

\* The body of the named type id as it is written where it is written in full.
BodyOf(id) == toCueType(Decls[id].body, typeUsage).val

(***************************************************************************)
(* The properties.                                                         *)
(***************************************************************************)
\* C2: optionality does not depend on the order of registration: a top level
\* label that some registered declaration tags json "omitempty" or cue "opt"
\* is an optional field of the table.
OptionalityOrderIndependent ==
    Running =>
        \A l \in DOMAIN fieldLookup :
            (\E p \in DeclaredAt(l) : HasOptionalTag(SchemaFields(p[1])[p[2]])) => TopLevel(l).optional

\* C3: merging a field into a known field of the same label, the same value
\* and the same or no comment leaves the list of top level fields and the
\* value of the known field as they are; a record type registered several
\* times yields one field per label, of the plain declared value.
IdempotentMerge ==
    Running =>
        /\ \A j \in 1..RegisteredCount : \A i \in 1..Len(SchemaFields(j)) :
              LET f == DeclaredFields(j)[i]
                  l == f.label.name
                  merged == registerField(Table, l, f)
              IN  (/\ l \in DOMAIN fieldLookup
                   /\ TopLevel(l).value = f.value
                   /\ (f.comments = <<>> \/ Lines(f) = Lines(TopLevel(l))))
                  => /\ merged.topLevelFields = topLevelFields
                     /\ Len(merged.heap) = Len(heap)
                     /\ merged.fieldLookup = fieldLookup
                     /\ merged.heap[fieldLookup[l]].value = TopLevel(l).value
        /\ (RegisteredCount >= 2 /\ \A j \in 1..RegisteredCount : roots[j] = roots[1])
              => /\ Len(topLevelFields) = Len(SchemaFields(1))
                 /\ \A i \in 1..Len(SchemaFields(1)) :
                       heap[topLevelFields[i]].value = DeclaredFields(1)[i].value

\* C3 happens: the same record type has been registered twice and its fields
\* are in the table.
IdempotentMergeWitness ==
    /\ pc = "done"
    /\ Len(roots) >= 2
    /\ \A j \in 1..Len(roots) : roots[j] = Named("Cfg")
    /\ Len(topLevelFields) = 3

\* C4: the value of every top level field is the conjunction of exactly the
\* values the registered declarations declare for its label.
MergedValueIsConjunction ==
    Running =>
        \A l \in DOMAIN fieldLookup :
            LET D == {DeclaredFields(p[1])[p[2]].value : p \in DeclaredAt(l)}
            IN  Conjuncts(TopLevel(l).value, D) = D

\* C4 happens: one declaration types Name string, another string & X, and the
\* field of the table is the conjunction of the two.
MergedValueWitness ==
    /\ Running
    /\ "Name" \in DOMAIN fieldLookup
    /\ TopLevel("Name").value =
          NewBinExprAnd(NewIdent("string"), NewBinExprAnd(NewIdent("string"), [k |-> "parsed", src |-> "X"]))

\* C5: the comment block of every top level field holds every comment line
\* declared for its label, each once.
CommentUnion ==
    Running =>
        \A l \in DOMAIN fieldLookup :
            /\ SeqToSet(Lines(TopLevel(l))) =
                  UNION {SeqToSet(Lines(DeclaredFields(p[1])[p[2]])) : p \in DeclaredAt(l)}
            /\ Cardinality(SeqToSet(Lines(TopLevel(l)))) = Len(Lines(TopLevel(l)))

\* C6: generation is all or nothing: a run that ends with an error leaves the
\* file as it was, with nothing added; a run that ends without one leaves the
\* empty file or the complete one (header, imports, every definition, every
\* top level field).
AllOrNothing ==
    /\ pc = "failed" => file = EmptyFile
    /\ pc = "done" =>
          \/ file = EmptyFile
          \/ /\ file.comments = <<HeaderComment>>
             /\ file.decls[1].k = "package"
             /\ Len(file.imports) = Cardinality(DOMAIN neededImports)
             /\ \A id \in AllIds : typeUsage[id] > 1 => DefinitionsOf(id) # {}
             /\ \A i \in 1..Len(topLevelFields) :
                   \E j \in 1..Len(file.decls) : file.decls[j] = [k |-> "ref", ptr |-> topLevelFields[i]]

\* C7: with no top level field generateCue adds nothing to the file and
\* returns no error, whatever the usage table and the imports; a record type
\* of no fields changes nothing in the table.
EmptyServiceEmitsNothing ==
    /\ \A imports \in {EmptyMap, neededImports, [p \in {"time"} |-> "time"]} :
          generateCue(file, <<>>, typeUsage, imports) = [err |-> "", file |-> file]
    /\ (pc = "done" /\ topLevelFields = <<>>) => (file = EmptyFile /\ err = "")
    /\ registerTopLevelField(Named("Empty"), typeUsage, Table) = [err |-> "", tbl |-> Table]
    /\ registerTopLevelField(Struct(<<>>), typeUsage, Table) = [err |-> "", tbl |-> Table]

\* C7 happens: generateCue has run on an empty table while the usage table
\* holds a type used twice.
EmptyServiceWitness ==
    /\ pc = "done"
    /\ topLevelFields = <<>>
    /\ Len(roots) >= 2
    /\ typeUsage["Empty"] >= 2
    /\ file = EmptyFile

\* The schema types the properties range over: every named type, the types of
\* the fields of every declared struct, and a map, a list and two records.
TypeUniverse ==
    {Named(id) : id \in AllIds}
        \cup UNION {{Decls[id].body.fields[i].typ : i \in 1..Len(Decls[id].body.fields)} : id \in StructIds}
        \cup {Map(Builtin("STRING"), Named("Retry")), List(Named("Bad")), RetryDecl.body, BadDecl.body}

\* C8: a config wrapper is transparent: around K, nested, and inside a map, a
\* list or a record, it translates as K does, to the same expression or the
\* same error, under the usage table of every reachable state.
WrapperTransparency ==
    /\ \A K \in TypeUniverse :
          LET plain == toCueType(K, typeUsage)
          IN  /\ toCueType(Config(K), typeUsage) = plain
              /\ toCueType(Config(Config(K)), typeUsage) = plain
    /\ \A id \in AllIds :
          /\ toCueType(List(Config(Named(id))), typeUsage) = toCueType(List(Named(id)), typeUsage)
          /\ toCueType(Map(Config(Builtin("STRING")), Config(Named(id))), typeUsage)
                = toCueType(Map(Builtin("STRING"), Named(id)), typeUsage)
          /\ toCueType(Struct(<<SField("F", Config(Named(id)), <<"a">>, <<>>)>>), typeUsage)
                = toCueType(Struct(<<SField("F", Named(id), <<"a">>, <<>>)>>), typeUsage)

\* C8 happens: Port is declared int in one registered declaration and
\* config-wrapped int in another, and the table holds the one value int.
WrapperWitness ==
    /\ pc = "done"
    /\ \E j \in 1..Len(roots) : roots[j] = Named("Cfg")
    /\ \E j \in 1..Len(roots) : roots[j] = Named("Alt")
    /\ TopLevel("Port").value = NewIdent("int")
    /\ \E i \in 1..Len(file.decls) : DeclValue(i) = CueIdent("Retry")

RECURSIVE FirstSeen(_, _)
\* The sequence q without the later occurrences of its elements, after acc.
FirstSeen(q, acc) ==
    IF q = <<>> THEN acc
    ELSE FirstSeen(Tail(q), IF Head(q) \in SeqToSet(acc) THEN acc ELSE Append(acc, Head(q)))

RECURSIVE DeclaredLabels(_)
\* The labels of the fields of the first n registered declarations, in order.
DeclaredLabels(n) ==
    IF n = 0 THEN <<>>
    ELSE DeclaredLabels(n - 1) \o [i \in 1..Len(SchemaFields(n)) |-> DeclaredFields(n)[i].label.name]

\* C9: the lookup table and the list of top level fields hold the same
\* fields, one per label, listed in the order the labels were first seen, and
\* generateCue writes them in that order after every definition.
FieldTableInvariant ==
    /\ Len(topLevelFields) = Cardinality(SeqToSet(topLevelFields))
    /\ SeqToSet(topLevelFields) = {fieldLookup[l] : l \in DOMAIN fieldLookup}
    /\ SeqToSet(topLevelFields) = 1..Len(heap)
    /\ \A l \in DOMAIN fieldLookup : TopLevel(l).label.name = l
    /\ \A i, j \in 1..Len(topLevelFields) :
          heap[topLevelFields[i]].label = heap[topLevelFields[j]].label => i = j
    /\ Running =>
          [i \in 1..Len(topLevelFields) |-> heap[topLevelFields[i]].label.name]
              = FirstSeen(DeclaredLabels(RegisteredCount), <<>>)
    /\ LET isRef(d) == d.k = "ref"
           refs == SelectSeq(file.decls, isRef)
       IN  /\ refs \in {<<>>, topLevelDecls(topLevelFields)}
           /\ (pc = "done" /\ topLevelFields # <<>>) => refs = topLevelDecls(topLevelFields)
           /\ \A i \in 1..Len(file.decls) :
                 file.decls[i].k = "ref" => Len(file.decls) - i < Len(refs)

\* C9 happens: several declarations with common labels have been merged and
\* the file holds definitions followed by the top level fields.
FieldTableWitness ==
    /\ pc = "done"
    /\ roots = <<Named("Alt"), Named("Cfg"), Named("Doc")>>
    /\ [i \in 1..Len(topLevelFields) |-> heap[topLevelFields[i]].label.name]
          = <<"Name", "Port", "Retry", "Tags", "When">>
    /\ DefinitionsOf("Retry") # {}
    /\ file.decls[Len(file.decls)] = [k |-> "ref", ptr |-> 5]

\* C10: a merge of a commented field into a commented field repositions the
\* comment block if and only if the union of the comments has several lines;
\* a union of one line leaves the block where it was.
CommentMoveOnlyMultiline ==
    [][(pc = "register" /\ err' = "") =>
          \A i \in 1..Len(SchemaFields(idx)) :
              LET f == DeclaredFields(idx)[i]
                  l == f.label.name
              IN  (l \in DOMAIN fieldLookup /\ f.comments # <<>> /\ TopLevel(l).comments # <<>>)
                  => heap'[fieldLookup[l]].comments[1].moved
                        = (TopLevel(l).comments[1].moved \/ Len(heap'[fieldLookup[l]].comments[1].list) > 1)]_vars

\* The named type id is written in full nowhere but in its own definition.
NeverInlined(id) ==
    \A i \in 1..Len(file.decls) : i \notin DefinitionsOf(id) => ~OccursIn(BodyOf(id), DeclValue(i))

\* The named type id is referred to by its identifier somewhere in the file.
Referenced(id) == \E i \in 1..Len(file.decls) : OccursIn(CueIdent(id), DeclValue(i))

\* The fields of the named type id are top level fields of the file.
ExpandedAtTopLevel(id) ==
    \A i \in 1..Len(Decls[id].body.fields) :
        \E j \in 1..Len(file.decls) :
            /\ file.decls[j].k = "ref"
            /\ heap[file.decls[j].ptr].label = structToFields(Decls[id].body, typeUsage).val[i].label

\* The file refers to the named type id at the top level, in place of its fields.
ReferencedAtTopLevel(id) ==
    \E j \in 1..Len(file.decls) : file.decls[j].k = "embed" /\ file.decls[j].expr = CueIdent(id)

\* C1, as amended: in a generated file, a named type counted once has no
\* definition and is referred to nowhere, its body written out where it is
\* used; a named type counted twice or more has exactly one definition, and
\* as the type of a field it is written in full nowhere else but referred to
\* by its identifier.  The fields of the type of a declaration are always
\* expanded into top level fields.
DedupThreshold ==
    (pc = "done" /\ topLevelFields # <<>>) =>
        \A id \in StructIds :
            /\ typeUsage[id] = 1 =>
                  /\ DefinitionsOf(id) = {}
                  /\ ~Referenced(id)
                  /\ IF id \in RootIds THEN ExpandedAtTopLevel(id)
                     ELSE \E i \in 1..Len(file.decls) : OccursIn(BodyOf(id), DeclValue(i))
            /\ typeUsage[id] >= 2 =>
                  /\ Cardinality(DefinitionsOf(id)) = 1
                  /\ \A i \in DefinitionsOf(id) : DeclValue(i) = BodyOf(id)
                  /\ NeverInlined(id)
                  /\ id \notin RootIds => Referenced(id)
                  /\ id \in RootIds => ExpandedAtTopLevel(id)

\* C1, as stated: in a generated file a named type counted once has no
\* definition and its body is written out where it is used; a named type
\* counted twice or more has exactly one definition and every use of it, the
\* use as the type of a declaration included, is a reference to its identifier.
DedupThresholdEveryUse ==
    (pc = "done" /\ topLevelFields # <<>>) =>
        \A id \in StructIds :
            /\ typeUsage[id] = 1 =>
                  /\ DefinitionsOf(id) = {}
                  /\ ~Referenced(id)
                  /\ IF id \in RootIds THEN ExpandedAtTopLevel(id)
                     ELSE \E i \in 1..Len(file.decls) : OccursIn(BodyOf(id), DeclValue(i))
            /\ typeUsage[id] >= 2 =>
                  /\ Cardinality(DefinitionsOf(id)) = 1
                  /\ NeverInlined(id)
                  /\ id \notin RootIds => Referenced(id)
                  /\ id \in RootIds => (ReferencedAtTopLevel(id) /\ ~ExpandedAtTopLevel(id))

\* C1 happens: a file is generated in which one named type, used once as the
\* type of a field, is written out in place and another, used twice, is
\* defined once and referred to.
DedupThresholdWitness ==
    /\ pc = "done"
    /\ typeUsage["Retry"] = 1 /\ DefinitionsOf("Retry") = {}
    /\ typeUsage["Leaf"] = 2 /\ Cardinality(DefinitionsOf("Leaf")) = 1
    /\ Referenced("Leaf")
    /\ \E i \in 1..Len(file.decls) : DeclValue(i) = BodyOf("Retry")

====
